---- MODULE Spec2Model ----
(***************************************************************************)
(* Audit-trail subsystem of the Construction Hub Financial Advanced        *)
(* Service: the AuditLog table, AuditService.log_action / log_error, the   *)
(* audit_required decorator and the request context bound by               *)
(* before_request, as written in                                           *)
(*   src/financial-advanced-service/src/services/audit_service.py          *)
(*   src/financial-advanced-service/src/main.py                            *)
(*                                                                         *)
(* Python values are modelled by tokens: None is the string "None", a      *)
(* piece of text is a sequence of string tokens (an f-string is the        *)
(* sequence of its literal and interpolated parts, None is <<>>).          *)
(***************************************************************************)
EXTENDS Integers, Sequences, FiniteSets, TLC

VARIABLES
    store,      \* rows of audit_logs that have been committed, in insertion order
    dbUp,       \* TRUE while the database accepts the INSERT/COMMIT of a flush
    ctx,        \* per worker: the Flask context that is pushed (none, app, request)
    g,          \* per worker: flask.g of the pushed application context
    session,    \* per worker: state of the scoped db.session
    pc,         \* per worker: position inside decorated_function
    inv,        \* per worker: locals of the running decorated_function
    lastCall,   \* per worker: arguments and return value of the latest log_action call
    now,        \* datetime.utcnow()
    trail,      \* per worker: what the latest get_audit_trail call gave its caller
    registered  \* TRUE when audit_service.db was given the app (init_app) and its tables

vars == <<store, dbUp, ctx, g, session, pc, inv, lastCall, now, trail, registered>>

\* ---------------------------------------------------------------- bounds
MaxRecords == 2
MaxClock == 1

\* ---------------------------------------------------------------- values
Workers == {"w1", "w2"}

None == "None"
NoText == <<>>

\* The id column default (uuid4, line 28) never repeats: the n-th row inserted
\* gets the n-th of these.
Uuids == <<"uuid-1", "uuid-2", "uuid-3", "uuid-4", "uuid-5", "uuid-6">>

RetentionDays == 2555

\* Python objects passed as old_values / new_values / compliance_flags are
\* None, "EMPTY_DICT" ({}), "DICT_A" ({"a": 1}), "EMPTY_LIST" ([]), "LIST_A"
\* ([1]) and "DATETIME", a value json.dumps cannot serialise.
Falsy(v) == v \in {None, "EMPTY_DICT", "EMPTY_LIST", ""}

JsonSerializable(v) == v # "DATETIME"

\* json.dumps on a serialisable value: the JSON text.
JsonText(v) ==
    CASE v = "EMPTY_DICT" -> "{}"
      [] v = "DICT_A"     -> "{\"a\": 1}"
      [] v = "EMPTY_LIST" -> "[]"
      [] v = "LIST_A"     -> "[1]"
      [] v = "BODY_JSON"  -> "{\"amount\": 10}"
      [] OTHER            -> "null"

\* `json.dumps(v) if v else None` (lines 118, 119, 122)
DumpsIfTruthy(v) == IF Falsy(v) THEN None ELSE JsonText(v)

\* ---------------------------------------------------------------- contexts
NoContext  == [kind |-> "none", uid |-> None, email |-> None, sid |-> None,
               body |-> "absent"]
AppContext == [kind |-> "app", uid |-> None, email |-> None, sid |-> None,
               body |-> "absent"]
Request(uid, email, sid, body) ==
    [kind |-> "request", uid |-> uid, email |-> email, sid |-> sid, body |-> body]

\* Inbound requests: the X-User-ID / X-User-Email / X-Session-ID headers and the
\* body (well-formed JSON, or declared JSON that does not parse).
Requests ==
    { Request("alice", "alice@example.com", "s-1", "json"),
      Request(None, None, None, "malformed") }

UnboundG == [bound |-> FALSE, user_id |-> None, user_email |-> None,
             session_id |-> None]

\* before_request (main.py): g.user_id = headers.get('X-User-ID', 'anonymous') ...
BoundG(r) ==
    [bound      |-> TRUE,
     user_id    |-> IF r.uid = None THEN "anonymous" ELSE r.uid,
     user_email |-> r.email,
     session_id |-> r.sid]

\* ---------------------------------------------------------------- AuditLog
\* Arguments of log_action (line 82-83), with their defaults.
LogArgs(action, resource_type, resource_id, old_values, new_values, business_context, risk_level, compliance_flags) ==
    [action |-> action, resource_type |-> resource_type,
     resource_id |-> resource_id, old_values |-> old_values,
     new_values |-> new_values, business_context |-> business_context,
     risk_level |-> risk_level, compliance_flags |-> compliance_flags]

\* `request` is falsy when no request context is pushed.
HasRequest(c) == c.kind = "request"

\* request.get_json() raises BadRequest when the declared JSON body does not parse.
GetJsonRaises(c) == HasRequest(c) /\ c.body = "malformed"

\* request.get_json(): the parsed body, None without a JSON body.
GetJson(c) == IF HasRequest(c) /\ c.body = "json" THEN "BODY_JSON" ELSE None

\* What GetAttrG would be were the identity bound to g never read.
GetAttrGDefault(gw, name, default) == default

\* getattr(g, name, default) (lines 100-102): the default when g lacks the name.
GetAttrG(gw, name, default) == IF gw.bound THEN gw[name] ELSE default

\* A status derived from the kind of call instead of the literal of line 123.
StatusFromContext(a) ==
    IF Len(a.business_context) > 0 /\ a.business_context[1] = "Error occurred:"
    THEN "FAILURE" ELSE "SUCCESS"

\* The status the constructor call is given (line 123).
StatusOf(a) == "SUCCESS"

\* The AuditLog(...) constructor call of log_action (lines 105-124) with the
\* column defaults of the model class (lines 28-73); `n` is the insertion number.
AuditLog(n, c, gw, a, t) ==
    [id                    |-> Uuids[n],
     timestamp             |-> t,
     user_id               |-> GetAttrG(gw, "user_id", "system"),
     user_email            |-> GetAttrG(gw, "user_email", None),
     session_id            |-> GetAttrG(gw, "session_id", None),
     ip_address            |-> IF HasRequest(c) THEN "10.0.0.1" ELSE None,
     user_agent            |-> IF HasRequest(c) THEN "agent" ELSE None,
     action                |-> a.action,
     resource_type         |-> a.resource_type,
     resource_id           |-> a.resource_id,
     service_name          |-> "financial-advanced",
     http_method           |-> IF HasRequest(c) THEN "GET" ELSE None,
     endpoint              |-> IF HasRequest(c) THEN "endpoint" ELSE None,
     request_payload       |-> DumpsIfTruthy(GetJson(c)),
     response_status       |-> None,
     response_payload      |-> None,
     old_values            |-> DumpsIfTruthy(a.old_values),
     new_values            |-> DumpsIfTruthy(a.new_values),
     business_context      |-> a.business_context,
     risk_level            |-> a.risk_level,
     compliance_flags      |-> DumpsIfTruthy(a.compliance_flags),
     processing_time_ms    |-> None,
     status                |-> StatusOf(a),
     error_message         |-> NoText,
     retention_period_days |-> RetentionDays,
     archived              |-> FALSE,
     archived_at           |-> None]

\* Does building the AuditLog raise (lines 100-124)?  g is unusable without an
\* application context, get_json() raises on a malformed body, json.dumps
\* raises on a value it cannot serialise.
BuildRaises(c, a) ==
    \/ c.kind = "none"
    \/ GetJsonRaises(c)
    \/ (~Falsy(a.old_values) /\ ~JsonSerializable(a.old_values))
    \/ (~Falsy(a.new_values) /\ ~JsonSerializable(a.new_values))
    \/ (~Falsy(a.compliance_flags) /\ ~JsonSerializable(a.compliance_flags))

\* db.session.add + db.session.commit (lines 126-127) raise when the session's
\* transaction was left rolled back by an earlier failed flush, or when the
\* database refuses the flush.
CommitRaises(se, up) == se = "failed" \/ ~up

\* The store is available to a call: db.session has an application context to
\* work in, and add and commit would go through.
StoreAvailable(c, se, up) == c.kind # "none" /\ ~CommitRaises(se, up)

\* log_action without its `except Exception`: the exception leaves the function.
RaiseOnFailure == "RAISED"

\* What log_action gives back at line 135, after its `except Exception`.
ReturnOnFailure == None

\* log_action handing back the generated id from a `finally`, also when the
\* commit failed.
log_action_id_on_failure(c, gw, a, st, se, up, t) ==
    IF BuildRaises(c, a)
    THEN [ret |-> None, store |-> st, session |-> se, attempts |-> 0]
    ELSE IF CommitRaises(se, up)
    THEN [ret |-> Uuids[Len(st) + 1], store |-> st, session |-> "failed",
          attempts |-> 1]
    ELSE LET row == AuditLog(Len(st) + 1, c, gw, a, t)
         IN  [ret |-> row.id, store |-> Append(st, row), session |-> se,
              attempts |-> 1]

\* log_action saving the row with session.merge under the id of the latest
\* row, which replaces that row.
log_action_merge(c, gw, a, st, se, up, t) ==
    IF BuildRaises(c, a)
    THEN [ret |-> None, store |-> st, session |-> se, attempts |-> 0]
    ELSE IF CommitRaises(se, up)
    THEN [ret |-> None, store |-> st, session |-> "failed", attempts |-> 1]
    ELSE IF st = <<>>
    THEN [ret |-> Uuids[1], store |-> <<AuditLog(1, c, gw, a, t)>>, session |-> se,
          attempts |-> 1]
    ELSE [ret |-> Uuids[Len(st)],
          store |-> [st EXCEPT ![Len(st)] = AuditLog(Len(st), c, gw, a, t)],
          session |-> se, attempts |-> 1]

\* log_action rolling the session back after a failed commit and trying the
\* add and commit a second time.
log_action_retry(c, gw, a, st, se, up, t) ==
    IF BuildRaises(c, a)
    THEN [ret |-> None, store |-> st, session |-> se, attempts |-> 0]
    ELSE IF CommitRaises(se, up) /\ ~up
    THEN [ret |-> None, store |-> st, session |-> "failed", attempts |-> 2]
    ELSE LET row == AuditLog(Len(st) + 1, c, gw, a, t)
         IN  [ret |-> row.id, store |-> Append(st, row), session |-> "active",
              attempts |-> IF CommitRaises(se, up) THEN 2 ELSE 1]

\* AuditService.log_action (lines 81-135) run by worker context c with flask.g
\* gw on store st, session se and database availability up.  The result is the
\* value returned ("RAISED" if an exception left the function), the store and
\* the session afterwards.
log_action(c, gw, a, st, se, up, t) ==
    IF BuildRaises(c, a)
    THEN [ret |-> ReturnOnFailure, store |-> st, session |-> se, attempts |-> 0]
    ELSE IF CommitRaises(se, up)
    THEN [ret |-> ReturnOnFailure, store |-> st, session |-> "failed",
          attempts |-> 1]
    ELSE LET row == AuditLog(Len(st) + 1, c, gw, a, t)
         IN  [ret |-> row.id, store |-> Append(st, row), session |-> se,
              attempts |-> 1]

\* The arguments log_error passes on to log_action (lines 143-149).
ErrorArgs(action, resource_type, error_message, resource_id) ==
    LogArgs(action, resource_type, resource_id, None, None,
            <<"Error occurred:", error_message>>, "HIGH", None)

\* AuditService.log_error (lines 137-149)
log_error(c, gw, action, resource_type, error_message, resource_id, st, se, up, t) ==
    log_action(c, gw, ErrorArgs(action, resource_type, error_message, resource_id),
               st, se, up, t)

\* ---------------------------------------------------------------- audit_required
\* Functions decorated with @audit_required(action, resource_type, risk_level):
\* the usage of the decorator's docstring (lines 178-181) with a declared
\* MEDIUM risk, and a function decorated with only a risk level, which takes
\* the defaults of lines 197-198.
Wrapped ==
    { [fname |-> "create_payment", action |-> "CREATE",
       resource_type |-> "payment", risk_level |-> "MEDIUM"],
      [fname |-> "close_books", action |-> None,
       resource_type |-> None, risk_level |-> "CRITICAL"] }

\* What the wrapped function f can do: return a value, return an error-valued
\* result, raise an Exception, or raise a BaseException that is no Exception
\* (SystemExit, KeyboardInterrupt).
Returned(v)   == [kind |-> "return", val |-> v]
Raised(e)     == [kind |-> "raise", val |-> e]
RaisedBase(e) == [kind |-> "raise_base", val |-> e]
NoOutcome     == [kind |-> "none", val |-> None]

FOutcomes ==
    { Returned("healthy"), Returned("error_response"),
      Raised("insufficient funds"), RaisedBase("SystemExit") }

\* f.__name__.upper()
Upper(name) ==
    CASE name = "create_payment" -> "CREATE_PAYMENT"
      [] name = "close_books"    -> "CLOSE_BOOKS"
      [] OTHER                   -> name

\* `action or f.__name__.upper()` (lines 197, 208)
ActionOf(fn) == IF fn.action = None THEN Upper(fn.fname) ELSE fn.action

\* `resource_type or 'unknown'` (lines 198, 209)
ResourceTypeOf(fn) == IF fn.resource_type = None THEN "unknown" ELSE fn.resource_type

\* A bare `except:` in place of `except Exception`.
CaughtByBareExcept(o) == o.kind \in {"raise", "raise_base"}

\* Which handler of decorated_function takes an outcome of f:
\* `except Exception` (line 205) catches Exception and its subclasses only.
CaughtByExcept(o) == o.kind = "raise"

\* The log_action call of the success path (lines 196-201).
SuccessArgs(fn) ==
    LogArgs(ActionOf(fn), ResourceTypeOf(fn), None, None, None,
            <<"Function", fn.fname, "executed successfully">>,
            fn.risk_level, None)

\* What the wrapper hands to its caller after the audit call of the success
\* path returned (line 203).
ResultOnSuccess(result) == result

\* The handler of line 205 without its `raise`: the function returns None.
SwallowAfterError(e) == [kind |-> "return", val |-> None]

\* What leaves the wrapper after the audit call of the failure path returned:
\* the bare `raise` of line 212 re-raises the exception being handled.
ReraiseAfterError(e) == e

AuditError == Raised("audit error")

IdleInv == [fname |-> None, action |-> None, resource_type |-> None,
            risk_level |-> None, fres |-> NoOutcome, calls |-> 0,
            out |-> NoOutcome]

NoArgs == LogArgs(None, None, None, None, None, NoText, None, None)
NoCall == [who |-> "nobody", args |-> NoArgs, ret |-> None, before |-> 0,
           after |-> 0, avail |-> FALSE, se |-> "active", up |-> FALSE,
           attempts |-> 0]

\* The record kept of a log_action call: who made it, its arguments, what it
\* returned, the number of rows before and after it, the state of the
\* session and of the database it found, whether the store was available to
\* it, and how many times it tried to add and commit.
CallRecord(who, a, r, st, c, se, up) ==
    [who |-> who, args |-> a, ret |-> r.ret, before |-> Len(st),
     after |-> Len(r.store), avail |-> StoreAvailable(c, se, up),
     se |-> se, up |-> up, attempts |-> r.attempts]

\* A start_date or end_date that was not given (None).
NoDate == -1

\* The limit of a call that gives none (line 153).
DefaultLimit == 100

\* Arguments of get_audit_trail (lines 152-153).
TrailArgs(resource_type, resource_id, user_id, start_date, end_date, limit) ==
    [resource_type |-> resource_type, resource_id |-> resource_id,
     user_id |-> user_id, start_date |-> start_date, end_date |-> end_date,
     limit |-> limit]

NoQuery == TrailArgs(None, None, None, NoDate, NoDate, DefaultLimit)

\* What a worker holds of its latest get_audit_trail call: how it ended, the
\* ids of the rows it returned in their order, its arguments, and whether the
\* database was up when it ran.
NoTrail == [status |-> "none", rows |-> <<>>, q |-> NoQuery, up |-> FALSE]

FnOf(i) == [fname |-> i.fname, action |-> i.action,
            resource_type |-> i.resource_type, risk_level |-> i.risk_level]

\* ---------------------------------------------------------------- state machine
\* The database takes the statements of audit_service.db: it is up, and that
\* SQLAlchemy instance was set up for the application.
AuditStoreUp == dbUp /\ registered

Init ==
    /\ store = <<>>
    /\ dbUp = TRUE
    /\ ctx = [w \in Workers |-> NoContext]
    /\ g = [w \in Workers |-> UnboundG]
    /\ session = [w \in Workers |-> "active"]
    /\ pc = [w \in Workers |-> "idle"]
    /\ inv = [w \in Workers |-> IdleInv]
    /\ lastCall = [w \in Workers |-> NoCall]
    /\ now = 0
    /\ trail = [w \in Workers |-> NoTrail]
    /\ registered = TRUE

\* The database stops accepting writes / accepts them again.
DbFails == /\ dbUp
           /\ dbUp' = FALSE
           /\ UNCHANGED <<registered, store, ctx, g, session, pc, inv, lastCall, now, trail>>

DbRecovers == /\ ~dbUp
              /\ dbUp' = TRUE
              /\ UNCHANGED <<registered, store, ctx, g, session, pc, inv, lastCall, now, trail>>

\* Flask pushes the contexts of an inbound request and runs before_request
\* (main.py lines 89-107), which binds the caller identity on g.
before_request(w, r) ==
    /\ ctx[w].kind = "none"
    /\ pc[w] \in {"idle", "done"}
    /\ ctx' = [ctx EXCEPT ![w] = r]
    /\ g' = [g EXCEPT ![w] = BoundG(r)]
    /\ pc' = [pc EXCEPT ![w] = "idle"]
    /\ inv' = [inv EXCEPT ![w] = IdleInv]
    /\ lastCall' = [lastCall EXCEPT ![w] = NoCall]
    /\ UNCHANGED <<registered, store, dbUp, session, now>>
    /\ trail' = [trail EXCEPT ![w] = NoTrail]

\* An application context without a request (main.py line 82): g is empty.
app_context(w) ==
    /\ ctx[w].kind = "none"
    /\ pc[w] \in {"idle", "done"}
    /\ ctx' = [ctx EXCEPT ![w] = AppContext]
    /\ g' = [g EXCEPT ![w] = UnboundG]
    /\ pc' = [pc EXCEPT ![w] = "idle"]
    /\ inv' = [inv EXCEPT ![w] = IdleInv]
    /\ lastCall' = [lastCall EXCEPT ![w] = NoCall]
    /\ UNCHANGED <<registered, store, dbUp, session, now>>
    /\ trail' = [trail EXCEPT ![w] = NoTrail]

\* The context is popped: g is discarded and the scoped session is removed, so
\* the next unit of work starts with a fresh session.
teardown(w) ==
    /\ ctx[w].kind # "none"
    /\ pc[w] \in {"idle", "done"}
    /\ ctx' = [ctx EXCEPT ![w] = NoContext]
    /\ g' = [g EXCEPT ![w] = UnboundG]
    /\ session' = [session EXCEPT ![w] = "active"]
    /\ pc' = [pc EXCEPT ![w] = "idle"]
    /\ inv' = [inv EXCEPT ![w] = IdleInv]
    /\ lastCall' = [lastCall EXCEPT ![w] = NoCall]
    /\ UNCHANGED <<registered, store, dbUp, now>>
    /\ trail' = [trail EXCEPT ![w] = NoTrail]

\* What OwnG would be were g one object shared by every worker.
SharedG(gs, w) == gs["w1"]

\* flask.g as worker w sees it (lines 100-102): the proxy resolves to the g of
\* the context that the worker itself pushed.
OwnG(gs, w) == gs[w]

\* A direct call of AuditService.log_action by business code, outside a wrapped
\* function or from inside one.
DirectLog(w, a) ==
    /\ pc[w] \in {"idle", "in_f", "done"}
    /\ LET r == log_action(ctx[w], OwnG(g, w), a, store, session[w], AuditStoreUp, now)
       IN  /\ Len(r.store) <= MaxRecords
           /\ store' = r.store
           /\ session' = [session EXCEPT ![w] = r.session]
           /\ lastCall' = [lastCall EXCEPT ![w] = 
                 CallRecord("direct", a, r, store, ctx[w], session[w],
                            AuditStoreUp)]
    /\ pc' = [pc EXCEPT ![w] = IF pc[w] = "done" THEN "idle" ELSE pc[w]]
    /\ inv' = [inv EXCEPT ![w] = IF pc[w] = "done" THEN IdleInv ELSE inv[w]]
    /\ UNCHANGED <<registered, dbUp, ctx, g, now>>
    /\ trail' = [trail EXCEPT ![w] = NoTrail]

\* decorated_function is entered (lines 185-190) and calls f.
Invoke(w, fn) ==
    /\ pc[w] \in {"idle", "done"}
    /\ pc' = [pc EXCEPT ![w] = "in_f"]
    /\ inv' = [inv EXCEPT ![w] =
                 [fname |-> fn.fname, action |-> fn.action,
                  resource_type |-> fn.resource_type,
                  risk_level |-> fn.risk_level, fres |-> NoOutcome,
                  calls |-> 0, out |-> NoOutcome]]
    /\ lastCall' = [lastCall EXCEPT ![w] = NoCall]
    /\ UNCHANGED <<registered, store, dbUp, ctx, g, session, now>>
    /\ trail' = [trail EXCEPT ![w] = NoTrail]

\* f returns or raises (line 190).
FunctionEnds(w, o) ==
    /\ pc[w] = "in_f"
    /\ pc' = [pc EXCEPT ![w] = "f_done"]
    /\ inv' = [inv EXCEPT ![w].fres = o]
    /\ UNCHANGED <<registered, store, dbUp, ctx, g, session, lastCall, now>>
    /\ trail' = [trail EXCEPT ![w] = NoTrail]

\* The body of decorated_function after f has ended with outcome o (lines
\* 192-212): the audit call(s) it makes and what it hands to its caller.  An
\* exception leaving log_action inside the `try` is caught by line 205 like
\* one of f; one leaving log_error inside the handler replaces the original.
AfterF(c, gw, fn, o, st, se, up, t) ==
    IF o.kind = "return"
    THEN LET a1 == SuccessArgs(fn)
             r1 == log_action(c, gw, a1, st, se, up, t)
         IN  IF r1.ret # "RAISED"
             THEN [store |-> r1.store, session |-> r1.session, calls |-> 1,
                   out |-> ResultOnSuccess(o),
                   call |-> CallRecord("wrapper", a1, r1, st, c, se, up)]
             ELSE LET a2 == ErrorArgs(ActionOf(fn), ResourceTypeOf(fn),
                                      "audit error", None)
                      r2 == log_error(c, gw, ActionOf(fn), ResourceTypeOf(fn),
                                      "audit error", None,
                                      r1.store, r1.session, up, t)
                  IN  [store |-> r2.store, session |-> r2.session, calls |-> 2,
                       out |-> AuditError,
                       call |-> CallRecord("wrapper", a2, r2, r1.store, c,
                                          r1.session, up)]
    ELSE LET a == ErrorArgs(ActionOf(fn), ResourceTypeOf(fn), o.val, None)
             r == log_error(c, gw, ActionOf(fn), ResourceTypeOf(fn), o.val,
                            None, st, se, up, t)
         IN  [store |-> r.store, session |-> r.session, calls |-> 1,
              out |-> IF r.ret # "RAISED" THEN ReraiseAfterError(o)
                      ELSE AuditError,
              call |-> CallRecord("wrapper", a, r, st, c, se, up)]

\* f returned, or raised an Exception: the wrapper makes its audit call
\* (lines 192-201, or 205-211).
AuditOutcome(w) ==
    /\ pc[w] = "f_done"
    /\ inv[w].fres.kind = "return" \/ CaughtByExcept(inv[w].fres)
    /\ LET r == AfterF(ctx[w], OwnG(g, w), FnOf(inv[w]), inv[w].fres, store,
                       session[w], AuditStoreUp, now)
       IN  /\ Len(r.store) <= MaxRecords
           /\ store' = r.store
           /\ session' = [session EXCEPT ![w] = r.session]
           /\ inv' = [inv EXCEPT ![w].calls = r.calls, ![w].out = r.out]
           /\ lastCall' = [lastCall EXCEPT ![w] = r.call]
    /\ pc' = [pc EXCEPT ![w] = "audited"]
    /\ UNCHANGED <<registered, dbUp, ctx, g, now>>
    /\ trail' = [trail EXCEPT ![w] = NoTrail]

\* The wrapper returns the result (line 203) or re-raises (line 212).
Deliver(w) ==
    /\ pc[w] = "audited"
    /\ pc' = [pc EXCEPT ![w] = "done"]
    /\ UNCHANGED <<registered, store, dbUp, ctx, g, session, inv, lastCall, now>>
    /\ trail' = [trail EXCEPT ![w] = NoTrail]

\* f raised a BaseException that `except Exception` does not catch: it leaves
\* decorated_function at once, no line of either branch runs.
PropagateUncaught(w) ==
    /\ pc[w] = "f_done"
    /\ inv[w].fres.kind # "return"
    /\ ~CaughtByExcept(inv[w].fres)
    /\ pc' = [pc EXCEPT ![w] = "done"]
    /\ inv' = [inv EXCEPT ![w].out = inv[w].fres]
    /\ UNCHANGED <<registered, store, dbUp, ctx, g, session, lastCall, now>>
    /\ trail' = [trail EXCEPT ![w] = NoTrail]

\* ---------------------------------------------------------------- get_audit_trail
Min(a, b) == IF a <= b THEN a ELSE b

\* What Limited would be were the limit dropped from the query.
Unlimited(n, limit) == n

\* The number of rows left standing by .limit(limit) of n selected ones (line 171).
Limited(n, limit) == Min(n, limit)

\* What Matches would be were a row kept as soon as one filter accepts it.
MatchesAny(row, q) ==
    \/ ~Falsy(q.resource_type) /\ row.resource_type = q.resource_type
    \/ ~Falsy(q.resource_id) /\ row.resource_id = q.resource_id
    \/ ~Falsy(q.user_id) /\ row.user_id = q.user_id
    \/ q.start_date # NoDate /\ row.timestamp >= q.start_date
    \/ q.end_date # NoDate /\ row.timestamp <= q.end_date
    \/ /\ Falsy(q.resource_type) /\ Falsy(q.resource_id) /\ Falsy(q.user_id)
       /\ q.start_date = NoDate /\ q.end_date = NoDate

\* What Matches would be were the time range open at both ends.
MatchesStrictly(row, q) ==
    /\ Falsy(q.resource_type) \/ row.resource_type = q.resource_type
    /\ Falsy(q.resource_id) \/ row.resource_id = q.resource_id
    /\ Falsy(q.user_id) \/ row.user_id = q.user_id
    /\ q.start_date = NoDate \/ row.timestamp > q.start_date
    /\ q.end_date = NoDate \/ row.timestamp < q.end_date

\* What QueryFailure would be were the exception caught and a list returned.
QuerySwallowed == "returned"

\* How a get_audit_trail call whose query fails ends: nothing in lines
\* 158-171 catches the exception.
QueryFailure == "raised"

\* What Matches would be were only None taken for an omitted argument, and
\* an empty string compared with the field.
MatchesEmptyExactly(row, q) ==
    /\ q.resource_type = None \/ row.resource_type = q.resource_type
    /\ q.resource_id = None \/ row.resource_id = q.resource_id
    /\ q.user_id = None \/ row.user_id = q.user_id
    /\ q.start_date = NoDate \/ row.timestamp >= q.start_date
    /\ q.end_date = NoDate \/ row.timestamp <= q.end_date

\* The filters of lines 160-169: each is applied only when its argument is truthy.
Matches(row, q) ==
    /\ Falsy(q.resource_type) \/ row.resource_type = q.resource_type
    /\ Falsy(q.resource_id) \/ row.resource_id = q.resource_id
    /\ Falsy(q.user_id) \/ row.user_id = q.user_id
    /\ q.start_date = NoDate \/ row.timestamp >= q.start_date
    /\ q.end_date = NoDate \/ row.timestamp <= q.end_date

\* What TrailResults would be were the rows ordered oldest first.
TrailResultsOldestFirst(st, q) ==
    LET hits == { i \in 1..Len(st) : Matches(st[i], q) }
        k    == Limited(Cardinality(hits), q.limit)
    IN  { s \in [1..k -> hits] :
            /\ \A i, j \in 1..k : i < j =>
                  /\ s[i] # s[j]
                  /\ st[s[i]].timestamp <= st[s[j]].timestamp
            /\ \A m \in hits : (\A i \in 1..k : s[i] # m) =>
                  \A i \in 1..k : st[m].timestamp >= st[s[i]].timestamp }

\* order_by(timestamp.desc()).limit(limit).all() (line 171): the lists the
\* database may return, as sequences of row numbers.  Rows with equal
\* timestamps come in an order the database chooses.
TrailResults(st, q) ==
    LET hits == { i \in 1..Len(st) : Matches(st[i], q) }
        k    == Limited(Cardinality(hits), q.limit)
    IN  { s \in [1..k -> hits] :
            /\ \A i, j \in 1..k : i < j =>
                  /\ s[i] # s[j]
                  /\ st[s[i]].timestamp >= st[s[j]].timestamp
            /\ \A m \in hits : (\A i \in 1..k : s[i] # m) =>
                  \A i \in 1..k : st[m].timestamp <= st[s[i]].timestamp }

\* The query cannot run: no application context, a session whose transaction
\* was left rolled back, or a database that is down.
QueryRaises(c, se, up) == c.kind = "none" \/ se = "failed" \/ ~up

\* What StoreAfterQuery would be were the query to consume the oldest row.
StoreTrimmedByQuery(st, q) == IF st = <<>> THEN st ELSE Tail(st)

\* The store a get_audit_trail call leaves: lines 158-171 build and run one
\* SELECT, with no add, delete or commit.
StoreAfterQuery(st, q) == st

\* AuditService.get_audit_trail (lines 151-171), called by worker w.
get_audit_trail(w, q) ==
    /\ pc[w] \in {"idle", "in_f", "done"}
    /\ IF QueryRaises(ctx[w], session[w], AuditStoreUp)
       THEN /\ trail' = [trail EXCEPT ![w] =
                          [status |-> QueryFailure, rows |-> <<>>, q |-> q,
                           up |-> AuditStoreUp]]
            /\ \E se \in {session[w], IF AuditStoreUp THEN session[w] ELSE "failed"} :
                  session' = [session EXCEPT ![w] = se]
       ELSE /\ \E s \in TrailResults(store, q) :
                  trail' = [trail EXCEPT ![w] =
                              [status |-> "returned",
                               rows |-> [i \in 1..Len(s) |-> store[s[i]].id],
                               q |-> q, up |-> AuditStoreUp]]
            /\ UNCHANGED session
    /\ store' = StoreAfterQuery(store, q)
    /\ UNCHANGED <<registered, dbUp, ctx, g, pc, inv, lastCall, now>>

\* Time passes.
Tick ==
    /\ now < MaxClock
    /\ now' = now + 1
    /\ UNCHANGED <<registered, store, dbUp, ctx, g, session, pc, inv, lastCall, trail>>

\* ---------------------------------------------------------------- specifications
\* Direct log_action calls made by business code.
DirectArgs ==
    { LogArgs("UPDATE", "project", "P1", "DICT_A", "EMPTY_DICT",
              <<"budget revised">>, "MEDIUM", None),
      LogArgs("UPDATE", "project", "P1", None, "DATETIME",
              NoText, "LOW", None) }

WorkerStep(w) ==
    \/ \E r \in Requests : before_request(w, r)
    \/ app_context(w)
    \/ teardown(w)
    \/ \E a \in DirectArgs : DirectLog(w, a)
    \/ \E fn \in Wrapped : Invoke(w, fn)
    \/ \E o \in FOutcomes : FunctionEnds(w, o)
    \/ AuditOutcome(w)
    \/ Deliver(w)
    \/ PropagateUncaught(w)

\* One worker serving one unit of work after another.
Next ==
    \/ DbFails
    \/ DbRecovers
    \/ WorkerStep("w1")

Spec == Init /\ [][Next]_vars

\* Writers and readers of the audit trail together: direct log_action calls,
\* the wrapper around create_payment on both of its paths, and queries.
TrailQueries ==
    { TrailArgs(None, None, None, NoDate, NoDate, DefaultLimit),
      TrailArgs("payment", "", None, 1, NoDate, 1) }

NextTrail ==
    \/ DbFails
    \/ DbRecovers
    \/ Tick
    \/ app_context("w1")
    \/ teardown("w1")
    \/ \E a \in DirectArgs : DirectLog("w1", a)
    \/ \E fn \in {f \in Wrapped : f.fname = "create_payment"} : Invoke("w1", fn)
    \/ \E o \in {Returned("healthy"), Raised("insufficient funds")} :
          FunctionEnds("w1", o)
    \/ AuditOutcome("w1")
    \/ Deliver("w1")
    \/ \E q \in TrailQueries : get_audit_trail("w1", q)

SpecTrail == Init /\ [][NextTrail]_vars

\* Two workers, each wrapping create_payment in an application context of its
\* own, while the database goes down and comes back.
NextPair ==
    \/ DbFails
    \/ DbRecovers
    \/ \E w \in Workers :
          \/ app_context(w)
          \/ teardown(w)
          \/ \E fn \in {f \in Wrapped : f.fname = "create_payment"} : Invoke(w, fn)
          \/ \E o \in {Returned("healthy"), Raised("insufficient funds")} :
                FunctionEnds(w, o)
          \/ AuditOutcome(w)
          \/ Deliver(w)

SpecPair == Init /\ [][NextPair]_vars

\* Readers of a trail written by two callers: rows that differ in resource
\* type, resource id, user and time, and queries that give every filter, some
\* of them, or none.
QueryLogArgs ==
    { LogArgs("UPDATE", "project", "P1", None, None, NoText, "LOW", None),
      LogArgs("UPDATE", "project", "P2", None, None, NoText, "LOW", None),
      LogArgs("CREATE", "payment", "P1", None, None, NoText, "LOW", None) }

QueryArgs ==
    { TrailArgs(None, None, None, NoDate, NoDate, DefaultLimit),
      TrailArgs("project", "P1", None, NoDate, NoDate, DefaultLimit),
      TrailArgs(None, None, "alice", NoDate, NoDate, 1),
      TrailArgs(None, None, None, 1, 1, DefaultLimit),
      TrailArgs("project", "P1", "alice", 0, 1, 2),
      TrailArgs(None, None, None, NoDate, 0, 2) }

NextQuery ==
    \/ Tick
    \/ app_context("w1")
    \/ \E r \in {x \in Requests : x.body = "json"} : before_request("w1", r)
    \/ teardown("w1")
    \/ \E a \in QueryLogArgs : DirectLog("w1", a)
    \/ \E q \in QueryArgs : get_audit_trail("w1", q)

SpecQuery == Init /\ [][NextQuery]_vars

\* A writer that passes old and new values of every shape (none, empty and
\* non-empty dict, empty and non-empty list) and reads the trail back.
Structures == {None, "EMPTY_DICT", "DICT_A", "EMPTY_LIST", "LIST_A"}

RoundTripArgs ==
    { LogArgs("UPDATE", "project", "P1", o, n, NoText, "LOW", None) : o \in Structures, n \in Structures }

NextRoundTrip ==
    \/ app_context("w1")
    \/ teardown("w1")
    \/ \E a \in RoundTripArgs : DirectLog("w1", a)
    \/ get_audit_trail("w1", NoQuery)

SpecRoundTrip == Init /\ [][NextRoundTrip]_vars

\* Callers of every kind of identity: requests that carry all three identity
\* headers, the user id alone, or none of them, and work done in a bare
\* application context.
IdentityRequests ==
    { Request("alice", "alice@example.com", "s-1", "json"),
      Request("bob", None, None, "json"),
      Request(None, None, None, "json") }

NextIdentity ==
    \/ \E r \in IdentityRequests : before_request("w1", r)
    \/ app_context("w1")
    \/ teardown("w1")
    \/ \E a \in DirectArgs : DirectLog("w1", a)
    \/ \E fn \in {f \in Wrapped : f.fname = "create_payment"} : Invoke("w1", fn)
    \/ \E o \in {Returned("healthy"), Raised("insufficient funds")} :
          FunctionEnds("w1", o)
    \/ AuditOutcome("w1")
    \/ Deliver("w1")

SpecIdentity == Init /\ [][NextIdentity]_vars

\* Two workers serving requests at the same time, with the database up: each
\* request carries its own identity headers, one has a body that does not
\* parse, and each runs create_payment under the wrapper.
ConcurrentRequests ==
    Requests \cup { Request("bob", "bob@example.com", "s-2", "json") }

NextConcurrent ==
    \E w \in Workers :
        \/ \E r \in ConcurrentRequests : before_request(w, r)
        \/ teardown(w)
        \/ \E fn \in {f \in Wrapped : f.fname = "create_payment"} :
              ctx[w].kind = "request" /\ Invoke(w, fn)
        \/ \E o \in {Returned("healthy"), Raised("insufficient funds")} :
              FunctionEnds(w, o)
        \/ AuditOutcome(w)
        \/ Deliver(w)

SpecConcurrent == Init /\ [][NextConcurrent]_vars

\* Callers that pass or declare every risk level, and one that is none of
\* the four: direct calls and wrapped functions on both paths.
RiskLevels == {"LOW", "MEDIUM", "HIGH", "CRITICAL"}
Statuses == {"SUCCESS", "FAILURE", "WARNING"}

PassedRiskLevels == RiskLevels \cup {"SEVERE"}

RiskArgs ==
    { LogArgs("UPDATE", "project", "P1", None, None, NoText, l, None) : l \in PassedRiskLevels }

RiskWrapped ==
    { [fname |-> "create_payment", action |-> "CREATE", resource_type |-> "payment", risk_level |-> l] : l \in PassedRiskLevels }

NextRisk ==
    \/ app_context("w1")
    \/ teardown("w1")
    \/ \E a \in RiskArgs : DirectLog("w1", a)
    \/ \E fn \in RiskWrapped : Invoke("w1", fn)
    \/ \E o \in {Returned("healthy"), Raised("insufficient funds")} :
          FunctionEnds("w1", o)
    \/ AuditOutcome("w1")
    \/ Deliver("w1")

SpecRisk == Init /\ [][NextRisk]_vars

\* Queries that pass empty strings for filters, on a trail with rows whose
\* resource id is a value, an empty string, or missing.
EmptyLogArgs ==
    { LogArgs("UPDATE", "project", "P1", None, None, NoText, "LOW", None),
      LogArgs("UPDATE", "project", "", None, None, NoText, "LOW", None),
      LogArgs("CREATE", "payment", None, None, None, NoText, "LOW", None) }

EmptyQueries ==
    { TrailArgs("project", "", None, NoDate, NoDate, DefaultLimit),
      TrailArgs("", None, "", NoDate, NoDate, 1),
      TrailArgs(None, "P1", None, NoDate, NoDate, DefaultLimit) }

NextEmpty ==
    \/ Tick
    \/ app_context("w1")
    \/ teardown("w1")
    \/ \E a \in EmptyLogArgs : DirectLog("w1", a)
    \/ \E q \in EmptyQueries : get_audit_trail("w1", q)

SpecEmpty == Init /\ [][NextEmpty]_vars

\* Calls made in every state of the inbound request: none bound, a request
\* without a body, with a JSON body, and with a body that does not parse.
BodyRequests ==
    { Request("alice", "alice@example.com", "s-1", b) : b \in {"absent", "json", "malformed"} }

NextBody ==
    \/ DbFails
    \/ DbRecovers
    \/ \E r \in BodyRequests : before_request("w1", r)
    \/ app_context("w1")
    \/ teardown("w1")
    \/ \E a \in DirectArgs : DirectLog("w1", a)
    \/ \E fn \in {f \in Wrapped : f.fname = "create_payment"} : Invoke("w1", fn)
    \/ FunctionEnds("w1", Returned("healthy"))
    \/ AuditOutcome("w1")
    \/ Deliver("w1")

SpecBody == Init /\ [][NextBody]_vars

\* A reader and a writer of the trail while the database goes down and comes
\* back.
NextQueryFailure ==
    \/ DbFails
    \/ DbRecovers
    \/ app_context("w1")
    \/ teardown("w1")
    \/ \E a \in DirectArgs : DirectLog("w1", a)
    \/ \E q \in TrailQueries : get_audit_trail("w1", q)

SpecQueryFailure == Init /\ [][NextQueryFailure]_vars

\* The assembled application (main.py).  It imports db from
\* models.financial_models, gives that instance the app and creates its
\* tables; the SQLAlchemy instance that audit_service creates for itself and
\* that AuditLog and log_action use is given neither.
InitApp ==
    /\ store = <<>>
    /\ dbUp = TRUE
    /\ ctx = [w \in Workers |-> NoContext]
    /\ g = [w \in Workers |-> UnboundG]
    /\ session = [w \in Workers |-> "active"]
    /\ pc = [w \in Workers |-> "idle"]
    /\ inv = [w \in Workers |-> IdleInv]
    /\ lastCall = [w \in Workers |-> NoCall]
    /\ now = 0
    /\ trail = [w \in Workers |-> NoTrail]
    /\ registered = FALSE

\* The routes of main.py that audit_required wraps: /health and
\* /config/frontend-urls.
AppWrapped ==
    { [fname |-> "health_check", action |-> "HEALTH_CHECK",
       resource_type |-> "system", risk_level |-> "LOW"],
      [fname |-> "get_frontend_urls", action |-> "GET_CONFIG",
       resource_type |-> "configuration", risk_level |-> "LOW"] }

\* What the two handlers return while the database answers SELECT 1.
AppOutcome(fname) ==
    IF fname = "health_check" THEN Returned("healthy") ELSE Returned("frontend_urls")

\* GET requests to those routes, with and without identity headers.
AppRequests ==
    { Request("alice", "alice@example.com", "s-1", "absent"),
      Request(None, None, None, "absent") }

NextApp ==
    \E w \in Workers :
        \/ \E r \in AppRequests : before_request(w, r)
        \/ \E fn \in AppWrapped : ctx[w].kind = "request" /\ Invoke(w, fn)
        \/ FunctionEnds(w, AppOutcome(inv[w].fname))
        \/ AuditOutcome(w)
        \/ Deliver(w)
        \/ teardown(w)

SpecApp == InitApp /\ [][NextApp]_vars

\* ---------------------------------------------------------------- properties
Contains(text, token) == \E i \in 1..Len(text) : text[i] = token

\* The row the latest log_action call of worker w added, when it added one.
RowOf(w) == store[lastCall[w].after]

AddedOneRow(w) ==
    /\ lastCall[w].after = lastCall[w].before + 1
    /\ lastCall[w].after <= Len(store)

\* C1: a wrapped function returned normally while the audit store was
\* available: that invocation persisted exactly one new row, with status
\* SUCCESS, the declared action and resource type and the declared risk level.
C1_SuccessPersistsOneRecord ==
    \A w \in Workers :
        (/\ pc[w] \in {"audited", "done"}
         /\ inv[w].fres.kind = "return"
         /\ lastCall[w].avail)
        => /\ lastCall[w].who = "wrapper"
           /\ inv[w].calls = 1
           /\ AddedOneRow(w)
           /\ RowOf(w).status = "SUCCESS"
           /\ RowOf(w).action = ActionOf(FnOf(inv[w]))
           /\ RowOf(w).resource_type = ResourceTypeOf(FnOf(inv[w]))
           /\ RowOf(w).risk_level = inv[w].risk_level

\* C2: a wrapped function raised while the audit store was available (and the
\* request, if any, carries a body that parses, so that the write goes
\* through): exactly one new row is persisted, with status FAILURE, a non-empty
\* error_message holding the error's text and risk level HIGH whatever was
\* declared, and the caller gets the original error.
C2_FailurePersistsFailureRecord ==
    \A w \in Workers :
        (/\ pc[w] = "done"
         /\ inv[w].fres.kind = "raise"
         /\ lastCall[w].avail
         /\ ~GetJsonRaises(ctx[w]))
        => /\ lastCall[w].who = "wrapper"
           /\ AddedOneRow(w)
           /\ RowOf(w).status = "FAILURE"
           /\ RowOf(w).error_message # NoText
           /\ Contains(RowOf(w).error_message, inv[w].fres.val)
           /\ RowOf(w).risk_level = "HIGH"
           /\ inv[w].out = inv[w].fres

\* C3: the audit store is unavailable while a wrapped function returns
\* normally: the wrapper still hands the function's result to its caller and
\* raises nothing.
C3_StoreDownStillReturns ==
    \A w \in Workers :
        (/\ pc[w] = "done"
         /\ inv[w].fres.kind = "return"
         /\ ~lastCall[w].avail)
        => /\ inv[w].out.kind = "return"
           /\ inv[w].out.val = inv[w].fres.val

C3_Witness ==
    /\ pc["w1"] = "done"
    /\ inv["w1"].fres = Returned("healthy")
    /\ ctx["w1"].kind = "app"
    /\ lastCall["w1"].who = "wrapper"
    /\ ~lastCall["w1"].avail
    /\ lastCall["w1"].ret = None
    /\ lastCall["w1"].after = lastCall["w1"].before
    /\ inv["w1"].out = Returned("healthy")

\* C4: two runs of the same wrapped function with the same outcome of the
\* function, which differ only in whether the audit write went through, hand
\* the same result or error to the wrapper's caller.
C4_NonInterference ==
    \A a, b \in Workers :
        (/\ pc[a] = "done" /\ pc[b] = "done"
         /\ FnOf(inv[a]) = FnOf(inv[b])
         /\ inv[a].fres = inv[b].fres)
        => inv[a].out = inv[b].out

C4_Witness ==
    /\ pc["w1"] = "done" /\ pc["w2"] = "done"
    /\ inv["w1"].fres = Raised("insufficient funds")
    /\ inv["w2"].fres = Raised("insufficient funds")
    /\ lastCall["w1"].who = "wrapper" /\ lastCall["w1"].ret # None
    /\ lastCall["w2"].who = "wrapper" /\ lastCall["w2"].ret = None
    /\ ~lastCall["w2"].avail
    /\ inv["w1"].out = Raised("insufficient funds")
    /\ inv["w2"].out = Raised("insufficient funds")

\* C5: log_action never raises to its caller: whatever the arguments, the
\* store and the context, it returns the id of the row or None.
C5_LogActionNeverRaises ==
    \A w \in Workers :
        lastCall[w].who # "nobody"
        => /\ lastCall[w].ret # "RAISED"
           /\ \/ lastCall[w].ret = None
              \/ \E n \in 1..Len(Uuids) : lastCall[w].ret = Uuids[n]

C5_Witness ==
    /\ lastCall["w1"].who = "direct"
    /\ lastCall["w1"].args.new_values = "DATETIME"
    /\ ctx["w1"].kind = "request"
    /\ ~lastCall["w1"].avail
    /\ lastCall["w1"].ret = None

C7_ExactlyOneCall ==
    \A w \in Workers : pc[w] = "done" => inv[w].calls = 1

\* C7 as amended: an invocation whose function returns (a value or an
\* error-valued result) or raises an Exception makes exactly one log_action
\* call, and the call has returned before the wrapper hands anything to its
\* caller; an invocation whose function raises a BaseException that is no
\* Exception makes none.
C7_OneCallUnlessUncaught ==
    \A w \in Workers :
        /\ pc[w] \in {"in_f", "f_done"} =>
              inv[w].calls = 0 /\ inv[w].out = NoOutcome
        /\ pc[w] \in {"audited", "done"} =>
              /\ inv[w].calls = IF inv[w].fres.kind = "raise_base" THEN 0 ELSE 1
              /\ inv[w].calls = 1 => lastCall[w].who = "wrapper"
              /\ pc[w] = "audited" => inv[w].calls = 1

C7_Witness ==
    /\ pc["w1"] = "done"
    /\ inv["w1"].fres = Returned("error_response")
    /\ inv["w1"].calls = 1
    /\ lastCall["w1"].who = "wrapper"

\* C8: the wrapper hands its caller exactly what the wrapped function gave:
\* the value it returned, or the error it raised.
C8_PureObserver ==
    \A w \in Workers : pc[w] = "done" => inv[w].out = inv[w].fres

C8_Witness ==
    /\ pc["w1"] = "done"
    /\ inv["w1"].fres = Raised("insufficient funds")
    /\ inv["w1"].out = Raised("insufficient funds")
    /\ lastCall["w1"].who = "wrapper"
    /\ lastCall["w1"].ret # None

\* A row without its archival fields.
Core(row) == [f \in DOMAIN row \ {"archived", "archived_at"} |-> row[f]]

\* C9: the audit store is append-only: no step of log_action, log_error, a
\* wrapped invocation or get_audit_trail deletes a persisted row or changes
\* any of its fields other than archived / archived_at.
C9_AppendOnly ==
    [][/\ Len(store') >= Len(store)
       /\ \A i \in 1..Len(store) : Core(store'[i]) = Core(store[i])]_vars

C9_Witness ==
    /\ Len(store) = 2
    /\ store[1].business_context = <<"Error occurred:", "insufficient funds">>
    /\ store[2].resource_type = "project"
    /\ trail["w1"].status = "returned"
    /\ Len(trail["w1"].rows) = 2

\* C10: every persisted row with status FAILURE has a non-empty error_message,
\* and every persisted row with a non-empty error_message has status FAILURE.
C10_FailureIffErrorMessage ==
    \A i \in 1..Len(store) :
        store[i].status = "FAILURE" <=> store[i].error_message # NoText

C10_Witness ==
    \E i \in 1..Len(store) :
        /\ Contains(store[i].business_context, "Error occurred:")
        /\ store[i].risk_level = "HIGH"
        /\ store[i].status = "SUCCESS"
        /\ store[i].error_message = NoText

\* ---------------------------------------------------------------- queries
\* The stored row with a given id, and its insertion number.
IndexOf(id) == CHOOSE n \in 1..Len(store) : store[n].id = id
RowById(id) == store[IndexOf(id)]

Returned1(w) == trail[w].status = "returned"
Ids(w) == { trail[w].rows[i] : i \in 1..Len(trail[w].rows) }

\* A filter argument that was given a value.
Supplied(v) == v # None /\ v # ""

\* The row passes every filter that the query supplies.
Satisfies(row, q) ==
    /\ Supplied(q.resource_type) => row.resource_type = q.resource_type
    /\ Supplied(q.resource_id) => row.resource_id = q.resource_id
    /\ Supplied(q.user_id) => row.user_id = q.user_id
    /\ q.start_date # NoDate => row.timestamp >= q.start_date
    /\ q.end_date # NoDate => row.timestamp <= q.end_date

\* C11: the filters of get_audit_trail are combined with AND: every returned
\* row passes every supplied filter, and a filter that is omitted excludes
\* nothing, so that a result shorter than the limit holds every stored row
\* that passes the supplied filters.
C11_FiltersConjoined ==
    \A w \in Workers : Returned1(w) =>
        /\ \A id \in Ids(w) : Satisfies(RowById(id), trail[w].q)
        /\ Len(trail[w].rows) < trail[w].q.limit =>
              \A n \in 1..Len(store) :
                  Satisfies(store[n], trail[w].q) => store[n].id \in Ids(w)

\* Two filters were supplied, one stored row passes both and is returned, and
\* another stored row passes one of them only and is left out.
C11_Witness ==
    \E w \in Workers :
        /\ Returned1(w)
        /\ Supplied(trail[w].q.resource_type)
        /\ Supplied(trail[w].q.resource_id)
        /\ ~Supplied(trail[w].q.user_id)
        /\ Ids(w) # {}
        /\ \E n \in 1..Len(store) :
              /\ store[n].resource_type = trail[w].q.resource_type
              /\ store[n].resource_id # trail[w].q.resource_id
              /\ store[n].id \notin Ids(w)

\* The row passes the filters on resource_type, resource_id and user_id that
\* the query supplies.
SatisfiesFields(row, q) ==
    /\ Supplied(q.resource_type) => row.resource_type = q.resource_type
    /\ Supplied(q.resource_id) => row.resource_id = q.resource_id
    /\ Supplied(q.user_id) => row.user_id = q.user_id

\* C12: with start_date = D1 and end_date = D2 the time filter is inclusive
\* at both ends: every returned row has D1 <= timestamp <= D2, and a result
\* shorter than the limit holds every row in that closed range that passes
\* the other filters, the rows stamped exactly D1 or D2 among them.
C12_RangeInclusive ==
    \A w \in Workers :
        (/\ Returned1(w)
         /\ trail[w].q.start_date # NoDate
         /\ trail[w].q.end_date # NoDate)
        => /\ \A id \in Ids(w) :
                 /\ trail[w].q.start_date <= RowById(id).timestamp
                 /\ RowById(id).timestamp <= trail[w].q.end_date
           /\ Len(trail[w].rows) < trail[w].q.limit =>
                 \A n \in 1..Len(store) :
                     (/\ SatisfiesFields(store[n], trail[w].q)
                      /\ trail[w].q.start_date <= store[n].timestamp
                      /\ store[n].timestamp <= trail[w].q.end_date)
                     => store[n].id \in Ids(w)

\* A query over a range D1 < D2 returned a row stamped D1 and a row stamped D2.
C12_Witness ==
    \E w \in Workers :
        /\ Returned1(w)
        /\ trail[w].q.start_date # NoDate
        /\ trail[w].q.start_date < trail[w].q.end_date
        /\ \E id1, id2 \in Ids(w) :
              /\ RowById(id1).timestamp = trail[w].q.start_date
              /\ RowById(id2).timestamp = trail[w].q.end_date

\* C13: the rows come newest first, and rows with equal timestamps come in
\* the order of their insertion, so that the same query on the same store
\* has one possible answer.
C13_TiesInInsertionOrder ==
    \A w \in Workers : Returned1(w) =>
        \A i, j \in 1..Len(trail[w].rows) : i < j =>
            LET a == trail[w].rows[i]
                b == trail[w].rows[j]
            IN  /\ RowById(a).timestamp >= RowById(b).timestamp
                /\ RowById(a).timestamp = RowById(b).timestamp
                      => IndexOf(a) < IndexOf(b)

\* C14: a result never has more rows than the limit of the call, and never
\* more than 100 when the call gives no limit.
C14_AtMostLimit ==
    \A w \in Workers : Returned1(w) =>
        /\ Len(trail[w].rows) <= trail[w].q.limit
        /\ trail[w].q.limit = DefaultLimit => Len(trail[w].rows) <= 100

\* More stored rows pass the filters than the limit allows, and the result
\* has as many rows as the limit.
C14_Witness ==
    \E w \in Workers :
        /\ Returned1(w)
        /\ Len(trail[w].rows) = trail[w].q.limit
        /\ Cardinality({ n \in 1..Len(store) : Satisfies(store[n], trail[w].q) })
              > trail[w].q.limit

\* json.loads on the text of a stored column, and the absence of a value
\* that a reader finds in a column left NULL.
JsonLoads(text) ==
    CASE text = "{}"           -> "EMPTY_DICT"
      [] text = "{\"a\": 1}" -> "DICT_A"
      [] text = "[]"           -> "EMPTY_LIST"
      [] text = "[1]"          -> "LIST_A"
      [] OTHER                 -> None

\* C15: a record written with given old_values and new_values and returned by
\* get_audit_trail carries stored values that deserialise to structures equal
\* to the ones supplied, the empty dict and the empty list included.
C15_RoundTrip ==
    \A w \in Workers :
        (/\ lastCall[w].who = "direct"
         /\ lastCall[w].ret # None
         /\ Returned1(w)
         /\ lastCall[w].ret \in Ids(w))
        => /\ JsonLoads(RowById(lastCall[w].ret).old_values) = lastCall[w].args.old_values
           /\ JsonLoads(RowById(lastCall[w].ret).new_values) = lastCall[w].args.new_values

\* ---------------------------------------------------------------- identity
\* The latest log_action call of worker w persisted a row.
Persisted(w) == lastCall[w].ret # None /\ AddedOneRow(w)

\* C16 as stated: a record persisted for a caller that supplied no X-User-ID
\* has user_id "system"; a record persisted for a caller that supplied one
\* carries the bound user id, e-mail and session id.
C16_SystemWhenUnbound ==
    \A w \in Workers : Persisted(w) =>
        /\ ctx[w].uid = None => RowOf(w).user_id = "system"
        /\ ctx[w].uid # None =>
              /\ RowOf(w).user_id = ctx[w].uid
              /\ RowOf(w).user_email = ctx[w].email
              /\ RowOf(w).session_id = ctx[w].sid

\* C16 (amended): a record persisted outside any request (application
\* context only) has user_id "system" and no e-mail or session id; a record
\* persisted while serving a request has the user id that before_request
\* bound, which is the X-User-ID header or "anonymous" when the request has
\* none, and the e-mail and session id of the request's headers.
C16_IdentityFromContext ==
    \A w \in Workers : Persisted(w) =>
        /\ ctx[w].kind = "app" =>
              /\ RowOf(w).user_id = "system"
              /\ RowOf(w).user_email = None
              /\ RowOf(w).session_id = None
        /\ ctx[w].kind = "request" =>
              /\ RowOf(w).user_id = IF ctx[w].uid = None THEN "anonymous" ELSE ctx[w].uid
              /\ RowOf(w).user_email = ctx[w].email
              /\ RowOf(w).session_id = ctx[w].sid

\* A request without X-User-ID persisted a row as "anonymous" after a row
\* was persisted as "system" and one under the user id of a request.
C16_Witness ==
    \E w \in Workers :
        /\ Persisted(w)
        /\ ctx[w].kind = "request"
        /\ ctx[w].uid = None
        /\ RowOf(w).user_id = "anonymous"
        /\ \E n \in 1..Len(store) : store[n].user_id \in {"system", "alice", "bob"}

\* ---------------------------------------------------------------- the application
\* C17: in the assembled application a request to /health, served while the
\* database is available, leaves exactly one new audit row, with action
\* HEALTH_CHECK, resource type system, status SUCCESS and risk level LOW, and
\* the caller receives what the handler returned.
C17_HealthCheckAudited ==
    \A w \in Workers :
        (/\ pc[w] = "done"
         /\ inv[w].fname = "health_check"
         /\ dbUp)
        => /\ AddedOneRow(w)
           /\ RowOf(w).action = "HEALTH_CHECK"
           /\ RowOf(w).resource_type = "system"
           /\ RowOf(w).status = "SUCCESS"
           /\ RowOf(w).risk_level = "LOW"
           /\ inv[w].out = inv[w].fres

\* ---------------------------------------------------------------- failures
\* C18: a get_audit_trail call that finds the store failing raises to its
\* caller: it returns no list, neither an empty nor a partial one.
C18_QueryFailureRaises ==
    \A w \in Workers :
        /\ (trail[w].status # "none" /\ ~trail[w].up) =>
              /\ trail[w].status = "raised"
              /\ trail[w].rows = <<>>
        /\ Returned1(w) => trail[w].up

\* A query raised while the database was down and the store held rows.
C18_Witness ==
    \E w \in Workers :
        /\ trail[w].status = "raised"
        /\ ~trail[w].up
        /\ ~dbUp
        /\ Len(store) > 0

\* C19: log_action never retries and nothing is queued: a call tries add and
\* commit at most once and leaves the store as it was when that fails, and
\* every step that changes the store is one call appending the one row whose
\* id it returns, so no row of an earlier failed call is written later.
C19_NoRetryNoQueue ==
    /\ [](\A w \in Workers :
            /\ lastCall[w].attempts <= 1
            /\ lastCall[w].ret = None => lastCall[w].after = lastCall[w].before)
    /\ [][store' # store =>
            /\ Len(store') = Len(store) + 1
            /\ \A n \in 1..Len(store) : store'[n] = store[n]
            /\ \E w \in Workers :
                  /\ lastCall'[w].ret = store'[Len(store')].id
                  /\ lastCall'[w].before = Len(store)
                  /\ lastCall'[w].attempts = 1]_vars

\* A call made while the database was down tried once, gave up returning
\* None and left the rows written before it as they were; the database is
\* still down.
C19_Witness ==
    \E w \in Workers :
        /\ lastCall[w].who # "nobody"
        /\ lastCall[w].attempts = 1
        /\ lastCall[w].ret = None
        /\ ~lastCall[w].up
        /\ ~dbUp
        /\ Len(store) > 0
        /\ lastCall[w].after = Len(store)

\* C20: a log_action call made on a session on which an earlier add or commit
\* failed, once the store is available again, persists its own row and
\* returns its id.
C20_NextWriteSucceeds ==
    \A w \in Workers :
        (/\ lastCall[w].who # "nobody"
         /\ lastCall[w].se = "failed"
         /\ lastCall[w].up
         /\ ~BuildRaises(ctx[w], lastCall[w].args))
        => /\ lastCall[w].ret # None
           /\ AddedOneRow(w)
           /\ RowOf(w).id = lastCall[w].ret

\* ---------------------------------------------------------------- concurrency
\* The wrapper of worker w has made its audit call for the running invocation.
Audited(w) == pc[w] \in {"audited", "done"}

\* C21: with the store available, every one of the invocations that workers
\* run concurrently persists one row of its own: the row is there under the
\* id the call returned, and no two invocations share a row.
C21_OneRecordPerInvocation ==
    /\ \A w \in Workers : (Audited(w) /\ lastCall[w].avail) =>
          /\ lastCall[w].who = "wrapper"
          /\ AddedOneRow(w)
          /\ RowOf(w).id = lastCall[w].ret
    /\ \A w1, w2 \in Workers :
          (w1 # w2 /\ Audited(w1) /\ Audited(w2)) =>
              lastCall[w1].after # lastCall[w2].after

\* The ids of the rows of a store.
IdsOf(st) == { st[n].id : n \in 1..Len(st) }

\* C22: record ids are unique and never reused: no two rows of the store have
\* the same id, and an id that a log_action call returns is the id of the row
\* the call appended and of no row that was in the store before the call.
C22_IdsUnique ==
    /\ [](\A i, j \in 1..Len(store) : i # j => store[i].id # store[j].id)
    /\ [][\A w \in Workers :
            (lastCall'[w] # lastCall[w] /\ lastCall'[w].ret # None) =>
                /\ lastCall'[w].ret \notin IdsOf(store)
                /\ lastCall'[w].ret \in IdsOf(store')
                /\ IdsOf(store) \subseteq IdsOf(store')]_vars

\* Two workers each hold the id that their latest call returned, and the two
\* ids are those of two rows of the store.
C22_Witness ==
    \E w1, w2 \in Workers :
        /\ w1 # w2
        /\ lastCall[w1].ret # None
        /\ lastCall[w2].ret # None
        /\ lastCall[w1].ret # lastCall[w2].ret
        /\ {lastCall[w1].ret, lastCall[w2].ret} \subseteq IdsOf(store)

\* A step in which worker w ran get_audit_trail.
QueryStep(w) == trail'[w].status # "none" /\ dbUp' = dbUp /\ now' = now

\* C23: get_audit_trail is read-only: whatever its arguments, and whether it
\* returns or raises, the rows of the store and all their fields are after
\* the call what they were before it.
C23_QueryReadOnly ==
    [][\A w \in Workers : QueryStep(w) => store' = store]_vars

\* A query returned every row of a store that holds rows, and the rows are
\* still there.
C23_Witness ==
    /\ store # <<>>
    /\ \E w \in Workers : Returned1(w) /\ Ids(w) = IdsOf(store)

\* ---------------------------------------------------------------- risk
\* C24: every row of the store has a risk_level among LOW, MEDIUM, HIGH and
\* CRITICAL and a status among SUCCESS, FAILURE and WARNING, whatever the
\* callers passed or declared as risk level.
C24_EnumsValid ==
    \A n \in 1..Len(store) :
        /\ store[n].risk_level \in RiskLevels
        /\ store[n].status \in Statuses

\* LOW < MEDIUM < HIGH < CRITICAL.
Rank(l) == CASE l = "LOW" -> 0 [] l = "MEDIUM" -> 1 [] l = "HIGH" -> 2 [] OTHER -> 3

\* C26: the row written on the failure path of a wrapper declared with one of
\* the four risk levels has a risk level at least as high as the declared one.
C26_EscalationNeverLowers ==
    \A w \in Workers :
        (/\ Audited(w)
         /\ inv[w].fres.kind = "raise"
         /\ inv[w].risk_level \in RiskLevels
         /\ Persisted(w))
        => Rank(RowOf(w).risk_level) >= Rank(inv[w].risk_level)

\* ---------------------------------------------------------------- timing
\* C25: every row that the wrapper produced carries a processing_time_ms,
\* the elapsed time of the wrapped function.
C25_ProcessingTimeRecorded ==
    \A w \in Workers :
        (/\ Audited(w)
         /\ lastCall[w].who = "wrapper"
         /\ Persisted(w))
        => RowOf(w).processing_time_ms # None

\* ---------------------------------------------------------------- empty filters
\* The query without the arguments that were passed as empty strings.
Omitting(q) ==
    [q EXCEPT !.resource_type = IF @ = "" THEN None ELSE @,
              !.resource_id = IF @ = "" THEN None ELSE @,
              !.user_id = IF @ = "" THEN None ELSE @]

\* The ids of the rows of the store with the numbers s, in the order of s.
IdsAt(s) == [i \in 1..Len(s) |-> store[s[i]].id]

\* C27: a call that passes an empty string for resource_type, resource_id or
\* user_id returns a result of the call without that argument, not the rows
\* whose field is empty.
C27_EmptyFilterOmitted ==
    \A w \in Workers :
        (Returned1(w) /\ Omitting(trail[w].q) # trail[w].q) =>
            \E s \in TrailResults(store, Omitting(trail[w].q)) :
                trail[w].rows = IdsAt(s)

\* A call with resource_id = "" returned a row whose resource_id is a value,
\* from a store that also holds a row whose resource_id is empty.
C27_Witness ==
    \E w \in Workers :
        /\ Returned1(w)
        /\ trail[w].q.resource_id = ""
        /\ \E id \in Ids(w) : RowById(id).resource_id = "P1"
        /\ \E n \in 1..Len(store) : store[n].resource_id = ""

\* ---------------------------------------------------------------- completeness
\* The numbers of the stored rows that pass the supplied filters of q.
Matching(q) == { n \in 1..Len(store) : Satisfies(store[n], q) }

\* C28: when M stored rows pass the supplied filters, the result has
\* min(M, limit) rows, all different, and every passing row that was left
\* out is no newer than any row returned.
C28_CompleteUpToLimit ==
    \A w \in Workers : Returned1(w) =>
        /\ Len(trail[w].rows) = Min(Cardinality(Matching(trail[w].q)), trail[w].q.limit)
        /\ Cardinality(Ids(w)) = Len(trail[w].rows)
        /\ \A n \in Matching(trail[w].q) : store[n].id \notin Ids(w) =>
              \A id \in Ids(w) : store[n].timestamp <= RowById(id).timestamp

\* The limit cut the result, and a row that was left out is older than the
\* rows returned.
C28_Witness ==
    \E w \in Workers :
        /\ Returned1(w)
        /\ Ids(w) # {}
        /\ \E n \in Matching(trail[w].q) :
              /\ store[n].id \notin Ids(w)
              /\ \A id \in Ids(w) : store[n].timestamp < RowById(id).timestamp

\* ---------------------------------------------------------------- identity in flight
\* C29: a row persisted while a worker handles a request carries the
\* identity that before_request bound for that request, whatever other
\* requests are in flight on other workers.
C29_IdentityNotLeaked ==
    \A w \in Workers :
        (Persisted(w) /\ ctx[w].kind = "request") =>
            /\ RowOf(w).user_id = BoundG(ctx[w]).user_id
            /\ RowOf(w).user_email = ctx[w].email
            /\ RowOf(w).session_id = ctx[w].sid

\* Two requests of different users are in flight at once, and each has
\* persisted a row under its own user id.
C29_Witness ==
    \E w1, w2 \in Workers :
        /\ Persisted(w1) /\ pc[w1] = "audited"
        /\ Persisted(w2) /\ pc[w2] = "audited"
        /\ ctx[w1].uid = "alice" /\ RowOf(w1).user_id = "alice"
        /\ ctx[w2].uid = "bob" /\ RowOf(w2).user_id = "bob"

\* ---------------------------------------------------------------- request state
\* json.dumps accepts every value passed in the arguments.
ArgsSerializable(a) ==
    /\ Falsy(a.old_values) \/ JsonSerializable(a.old_values)
    /\ Falsy(a.new_values) \/ JsonSerializable(a.new_values)
    /\ Falsy(a.compliance_flags) \/ JsonSerializable(a.compliance_flags)

\* C30: a log_action call made with the store available persists one row
\* and returns its id, whatever the state of the inbound request: none
\* bound, no body, a JSON body, or a body that does not parse.
C30_PersistsWhateverTheRequest ==
    \A w \in Workers :
        (/\ lastCall[w].who # "nobody"
         /\ lastCall[w].avail
         /\ ArgsSerializable(lastCall[w].args))
        => /\ lastCall[w].ret # None
           /\ AddedOneRow(w)
           /\ RowOf(w).id = lastCall[w].ret
====
